---- MODULE Spec2Model ----
(***************************************************************************)
(* dendron-to-logseq: the Vault path mapping (src/dendron-to-logseq.mjs,   *)
(* class Vault) and the convert pipeline (convert, main).                  *)
(*                                                                         *)
(* JavaScript strings are sequences of one-character strings.              *)
(*   Spec         a Vault is constructed and its methods are applied to    *)
(*                two node paths of the vault directory                    *)
(*   SpecConvert  main runs the "convert" action over the configured       *)
(*                vaults: stream data events, copies in flight, end events *)
(***************************************************************************)
EXTENDS Integers, Sequences, FiniteSets

VARIABLES
  \* --- Vault unit (Spec) ---
  vault,          \* the Vault object: dendronVault, logseqGraph, dendronJournalHierarchy
  nodePath,       \* nodePath[i]: the i-th Dendron node path handed to the Vault
  isJournal,      \* isJournal[i]: value returned by isDendronJournalNode(nodePath[i])
  destPath,       \* destPath[i]: outcome of logseqDestPath(nodePath[i])
  pagePath,       \* pagePath[i]: outcome of logseqPagePath(nodePath[i])
  pc,             \* "new" -> "classified" -> "mapped" -> "paged"
  \* --- convert pipeline (SpecConvert) ---
  dir,            \* dir[v]: the *.md leaf names the glob stream of vault v will emit
  mainI,          \* main's for-loop: index of the next vault to start
  ev,             \* ev[v][leaf]: what the data handler did for that path, in order
  processed,      \* processed[v]: convert's counter for vault v
  report,         \* report[v]: <<>> or <<N>> once "processed N files" is printed
  rejectionMode,  \* what the Node runtime does with an unhandled rejection
  exited          \* the process has been terminated by an unhandled rejection

vaultVars == <<vault, nodePath, isJournal, destPath, pagePath, pc>>
convertVars == <<dir, mainI, ev, processed, report, rejectionMode, exited>>
vars == <<vault, nodePath, isJournal, destPath, pagePath, pc,
          dir, mainI, ev, processed, report, rejectionMode, exited>>

----------------------------------------------------------------------------
(* Bounds and alphabets *)

\* longest identifier (file name without .md) drawn for the first node path
MaxLen == 5

\* longest identifier drawn for the second node path
MaxLenOther == 4

\* most files one vault directory holds in the pipeline
MaxFiles == 2

\* characters of identifiers: a letter, the Dendron delimiter, the Logseq delimiter
Chars == {"d", ".", "_"}

Strings(n) == UNION {[1..k -> Chars] : k \in 0..n}

----------------------------------------------------------------------------
(* JavaScript string primitives *)

\* String.prototype.startsWith
StartsWith(s, p) == Len(s) >= Len(p) /\ SubSeq(s, 1, Len(p)) = p

EndsWith(s, p) == Len(s) >= Len(p) /\ SubSeq(s, Len(s) - Len(p) + 1, Len(s)) = p

\* String.prototype.slice(n), n >= 0
Slice(s, n) == SubSeq(s, n + 1, Len(s))

\* String.prototype.replace(/c/g, r) for a one-character pattern c
RECURSIVE ReplaceAll(_, _, _)
ReplaceAll(s, c, r) ==
  IF s = <<>> THEN <<>>
  ELSE (IF Head(s) = c THEN r ELSE <<Head(s)>>) \o ReplaceAll(Tail(s), c, r)

\* s without its trailing "/" characters
RECURSIVE StripSlashes(_)
StripSlashes(s) ==
  IF s # <<>> /\ s[Len(s)] = "/" THEN StripSlashes(SubSeq(s, 1, Len(s) - 1)) ELSE s

\* the part of s after its last "/"
RECURSIVE LastSegment(_)
LastSegment(s) ==
  IF s = <<>> THEN <<>>
  ELSE IF s[Len(s)] = "/" THEN <<>>
  ELSE LastSegment(SubSeq(s, 1, Len(s) - 1)) \o <<s[Len(s)]>>

\* path.basename(p, ext) (posix): the last segment, trailing slashes ignored; the
\* suffix ext is removed unless the segment is ext itself.
Basename(p, ext) ==
  IF p = ext THEN <<>>
  ELSE LET base == LastSegment(StripSlashes(p))
       IN IF EndsWith(base, ext) /\ Len(base) > Len(ext)
          THEN SubSeq(base, 1, Len(base) - Len(ext))
          ELSE base

\* path.join(a, b) (posix) for a normalised a and a single segment b that is
\* neither "." nor "..": empty parts are skipped, one "/" separates the parts.
PathJoin(a, b) ==
  IF a = <<>> THEN b
  ELSE IF b = <<>> THEN a
  ELSE IF a[Len(a)] = "/" THEN a \o b
  ELSE a \o <<"/">> \o b

MdExt == <<".", "m", "d">>

----------------------------------------------------------------------------
(* class Vault *)

\* a JavaScript value that is a string, and the value undefined
JsString(s) == [type |-> "string", value |-> s]
JsUndefined == [type |-> "undefined", value |-> <<>>]

\* typeof x
TypeOf(x) == x.type

\* outcome of a call: a returned path, or a thrown Error
Returned(p) == [threw |-> FALSE, value |-> p]
Thrown == [threw |-> TRUE, value |-> <<>>]

\* constructor(dendronVault, logseqGraph, dendronJournalHierarchy)
Vault(dv, lg, jh) ==
  [dendronVault |-> dv, logseqGraph |-> lg, dendronJournalHierarchy |-> jh]

dendronNodeHierarchyPosition(dendronNodePath) == Basename(dendronNodePath, MdExt)

\* variant: the prefix test without the delimiter, startsWith(hierarchy)
isDendronJournalNodeNoDot(this, dendronNodePath) ==
  IF TypeOf(this.dendronJournalHierarchy) # "string" THEN "undefined"
  ELSE IF StartsWith(dendronNodeHierarchyPosition(dendronNodePath),
                     this.dendronJournalHierarchy.value)
       THEN "true" ELSE "false"

\* returns a JavaScript value: "true", "false" or "undefined" (the bare return)
isDendronJournalNode(this, dendronNodePath) ==
  IF TypeOf(this.dendronJournalHierarchy) # "string" THEN "undefined"
  ELSE LET absHierarchyPos == dendronNodeHierarchyPosition(dendronNodePath)
       IN IF StartsWith(absHierarchyPos, this.dendronJournalHierarchy.value \o <<".">>)
          THEN "true" ELSE "false"

\* variant: the gate written as a comparison, (...) !== false
TruthyNotFalse(v) == v # "false"

\* truthiness of the value an if statement tests
Truthy(v) == v = "true"

logseqJournalDir(this) == PathJoin(this.logseqGraph, <<"j","o","u","r","n","a","l","s">>)

logseqPageDir(this) == PathJoin(this.logseqGraph, <<"p","a","g","e","s">>)

\* variant: slice(hierarchy.length), the delimiter after the root kept
logseqJournalPathKeepDot(this, dendronNodePath) ==
  IF TypeOf(this.dendronJournalHierarchy) # "string" THEN Thrown
  ELSE Returned(PathJoin(logseqJournalDir(this),
         ReplaceAll(Slice(dendronNodeHierarchyPosition(dendronNodePath),
                          Len(this.dendronJournalHierarchy.value)),
                    ".", <<"_">>) \o MdExt))

\* variant: journal entries flattened with the page delimiter
logseqJournalPathTriple(this, dendronNodePath) ==
  IF TypeOf(this.dendronJournalHierarchy) # "string" THEN Thrown
  ELSE Returned(PathJoin(logseqJournalDir(this),
         ReplaceAll(Slice(dendronNodeHierarchyPosition(dendronNodePath),
                          Len(this.dendronJournalHierarchy.value) + 1),
                    ".", <<"_", "_", "_">>) \o MdExt))

logseqJournalPath(this, dendronNodePath) ==
  IF TypeOf(this.dendronJournalHierarchy) # "string" THEN Thrown
  ELSE LET absHierarchyPos == dendronNodeHierarchyPosition(dendronNodePath)
           relHierarchyPos ==
             ReplaceAll(Slice(absHierarchyPos, Len(this.dendronJournalHierarchy.value) + 1),
                        ".", <<"_">>)
       IN Returned(PathJoin(logseqJournalDir(this), relHierarchyPos \o MdExt))

\* variant: pages flattened with the journal delimiter, one underscore
logseqPagePathOneUnderscore(this, dendronNodePath) ==
  Returned(PathJoin(logseqPageDir(this),
                    ReplaceAll(dendronNodeHierarchyPosition(dendronNodePath),
                               ".", <<"_">>) \o MdExt))

\* variant: pages flattened with two underscores
logseqPagePathTwoUnderscores(this, dendronNodePath) ==
  Returned(PathJoin(logseqPageDir(this),
                    ReplaceAll(dendronNodeHierarchyPosition(dendronNodePath),
                               ".", <<"_", "_">>) \o MdExt))

\* String.prototype.replace(c, r) with a string pattern: the first match only
RECURSIVE ReplaceFirst(_, _, _)
ReplaceFirst(s, c, r) ==
  IF s = <<>> THEN <<>>
  ELSE IF Head(s) = c THEN r \o Tail(s)
  ELSE <<Head(s)>> \o ReplaceFirst(Tail(s), c, r)

\* variant: replace(".", "___"), without the g flag
logseqPagePathFirstOnly(this, dendronNodePath) ==
  Returned(PathJoin(logseqPageDir(this),
                    ReplaceFirst(dendronNodeHierarchyPosition(dendronNodePath),
                                 ".", <<"_", "_", "_">>) \o MdExt))

logseqPagePath(this, dendronNodePath) ==
  LET absHierarchyPos == dendronNodeHierarchyPosition(dendronNodePath)
  IN Returned(PathJoin(logseqPageDir(this),
                       ReplaceAll(absHierarchyPos, ".", <<"_", "_", "_">>) \o MdExt))

logseqDestPath(this, dendronNodePath) ==
  IF Truthy(isDendronJournalNode(this, dendronNodePath))
  THEN logseqJournalPath(this, dendronNodePath)
  ELSE logseqPagePath(this, dendronNodePath)

----------------------------------------------------------------------------
(* Inputs *)

\* glob.stream(`${vault.dendronVault}/*.md`): the leaf matches *.md, and with
\* glob's default options a leading "." is not matched by "*".
GlobLeaves(n) == {id \o MdExt : id \in {s \in Strings(n) : s # <<>> /\ s[1] # "."}}

\* the path the stream emits for a leaf of the vault directory
GlobPath(dv, leaf) == dv \o <<"/">> \o leaf

\* constructor arguments: absolute and relative roots; a journal hierarchy of
\* one segment, of two segments, and none (undefined)
VaultArgs ==
  { << <<"/", "v">>, <<"/", "g">>, JsUndefined >>,
    << <<"/", "v">>, <<"/", "g">>, JsString(<<"d">>) >>,
    << <<"w", ".", "m", "d">>, <<"h">>, JsString(<<"d", ".", "d">>) >> }

NotCalled == "not-called"

TwoPaths == {1, 2}

----------------------------------------------------------------------------
(* Spec: the Vault unit *)

IdleConvert ==
  /\ dir = <<>>
  /\ mainI = 0
  /\ ev = <<>>
  /\ processed = <<>>
  /\ report = <<>>
  /\ rejectionMode = "throw"
  /\ exited = FALSE

Init ==
  /\ \E a \in VaultArgs : vault = Vault(a[1], a[2], a[3])
  /\ \E l1 \in GlobLeaves(MaxLen), l2 \in GlobLeaves(MaxLenOther) :
       nodePath = <<GlobPath(vault.dendronVault, l1), GlobPath(vault.dendronVault, l2)>>
  /\ isJournal = [i \in TwoPaths |-> NotCalled]
  /\ destPath = [i \in TwoPaths |-> NotCalled]
  /\ pagePath = [i \in TwoPaths |-> NotCalled]
  /\ pc = "new"
  /\ IdleConvert

Classify ==
  /\ pc = "new"
  /\ isJournal' = [i \in TwoPaths |-> isDendronJournalNode(vault, nodePath[i])]
  /\ pc' = "classified"
  /\ UNCHANGED <<vault, nodePath, destPath, pagePath>>
  /\ UNCHANGED convertVars

Map ==
  /\ pc = "classified"
  /\ destPath' = [i \in TwoPaths |-> logseqDestPath(vault, nodePath[i])]
  /\ pc' = "mapped"
  /\ UNCHANGED <<vault, nodePath, isJournal, pagePath>>
  /\ UNCHANGED convertVars

Page ==
  /\ pc = "mapped"
  /\ pagePath' = [i \in TwoPaths |-> logseqPagePath(vault, nodePath[i])]
  /\ pc' = "paged"
  /\ UNCHANGED <<vault, nodePath, isJournal, destPath>>
  /\ UNCHANGED convertVars

Next == Classify \/ Map \/ Page

Spec == Init /\ [][Next]_vars

----------------------------------------------------------------------------
(* SpecConvert: main with args.action = "convert" *)

\* args.vaults.map((v) => new Vault(v[0], v[1], v[2])): argparse's nargs: 3
\* makes every journal hierarchy a string
ConvertVaults ==
  << Vault(<<"/", "v">>, <<"/", "g">>, JsString(<<"d">>)),
     Vault(<<"w", ".", "m", "d">>, <<"h">>, JsString(<<"d", ".", "d">>)) >>

VaultIds == 1..Len(ConvertVaults)

\* leaf names a vault directory may hold: d.d.md, dd.md, _.md
ConvertLeaves ==
  { <<"d", ".", "d">> \o MdExt, <<"d", "d">> \o MdExt, <<"_">> \o MdExt }

Directories == {fs \in SUBSET ConvertLeaves : Cardinality(fs) <= MaxFiles}

Event(op, arg) == [op |-> op, arg |-> arg]

IdleVault ==
  /\ vault = ConvertVaults[1]
  /\ nodePath = <<>>
  /\ isJournal = <<>>
  /\ destPath = <<>>
  /\ pagePath = <<>>
  /\ pc = "convert"

InitConvert ==
  /\ dir \in [VaultIds -> Directories]
  /\ mainI = 1
  /\ ev = [v \in VaultIds |-> [leaf \in dir[v] |-> <<>>]]
  /\ processed = [v \in VaultIds |-> 0]
  /\ report = [v \in VaultIds |-> <<>>]
  /\ rejectionMode \in {"throw", "warn"}
  /\ exited = FALSE
  /\ IdleVault

\* a promise rejected with no handler: Node from version 15 raises it as an
\* uncaught exception and the process exits; older versions, and
\* --unhandled-rejections=warn, print a warning and go on
UnhandledRejection == exited' = (rejectionMode = "throw")

\* one iteration of main's for loop: the stream is created and convert
\* registers its handlers and returns
MainStartVault ==
  /\ ~exited
  /\ mainI <= Len(ConvertVaults)
  /\ mainI' = mainI + 1
  /\ UNCHANGED <<dir, ev, processed, report, rejectionMode, exited>>
  /\ UNCHANGED vaultVars

\* convert has registered the handlers of vault v
Started(v) == v < mainI

\* the loop of main awaits only promises that are already settled (convert has
\* no await of its own), so it runs through every vault in microtasks; the event
\* loop delivers the streams' I/O callbacks only after that
StreamsFlow == mainI > Len(ConvertVaults)

Emitted(v, leaf) == ev[v][leaf] # <<>>

Pending(v, leaf) ==
  ev[v][leaf] # <<>> /\ ev[v][leaf][Len(ev[v][leaf])].op = "copyFile"

\* variant: the handler maps with the first vault, whatever vault the stream
\* belongs to
ConvertDataFirstVault(v, leaf) ==
  LET srcPath == GlobPath(ConvertVaults[v].dendronVault, leaf)
      dest == logseqDestPath(ConvertVaults[1], srcPath)
  IN /\ ev' = [ev EXCEPT ![v][leaf] =
                 <<Event("logseqDestPath", dest.value), Event("copyFile", dest.value)>>]
     /\ UNCHANGED <<dir, mainI, processed, report, rejectionMode, exited>>

\* the data handler up to its await: destPath is computed, logged, and
\* fs.copyFile(srcPath, destPath) is started; a throw of logseqDestPath rejects
\* the handler's promise
ConvertData(v, leaf) ==
  LET srcPath == GlobPath(ConvertVaults[v].dendronVault, leaf)
      dest == logseqDestPath(ConvertVaults[v], srcPath)
  IN IF dest.threw
     THEN /\ ev' = [ev EXCEPT ![v][leaf] = <<Event("threw", <<>>)>>]
          /\ UnhandledRejection
          /\ UNCHANGED <<dir, mainI, processed, report, rejectionMode>>
     ELSE /\ ev' = [ev EXCEPT ![v][leaf] =
                      <<Event("logseqDestPath", dest.value),
                        Event("copyFile", dest.value)>>]
          /\ UNCHANGED <<dir, mainI, processed, report, rejectionMode, exited>>

\* the stream of a started vault emits one of its paths
Data ==
  \E v \in VaultIds : \E leaf \in dir[v] :
    /\ ~exited
    /\ StreamsFlow /\ Started(v)
    /\ ~Emitted(v, leaf)
    /\ ConvertData(v, leaf)
    /\ UNCHANGED vaultVars

\* fs.copyFile resolves: the handler resumes after its await and counts
CopyResolve ==
  \E v \in VaultIds : \E leaf \in dir[v] :
    /\ ~exited
    /\ Pending(v, leaf)
    /\ ev' = [ev EXCEPT ![v][leaf] = Append(@, Event("copied", <<>>))]
    /\ processed' = [processed EXCEPT ![v] = @ + 1]
    /\ UNCHANGED <<dir, mainI, report, rejectionMode, exited>>
    /\ UNCHANGED vaultVars

\* fs.copyFile rejects: the await throws inside the handler, whose promise
\* nobody handles
CopyReject ==
  \E v \in VaultIds : \E leaf \in dir[v] :
    /\ ~exited
    /\ Pending(v, leaf)
    /\ ev' = [ev EXCEPT ![v][leaf] = Append(@, Event("rejected", <<>>))]
    /\ UnhandledRejection
    /\ UNCHANGED <<dir, mainI, processed, report, rejectionMode>>
    /\ UNCHANGED vaultVars

\* the stream ends after its last path: "processed N files" is printed
End ==
  \E v \in VaultIds :
    /\ ~exited
    /\ StreamsFlow /\ Started(v)
    /\ \A leaf \in dir[v] : Emitted(v, leaf)
    /\ report[v] = <<>>
    /\ report' = [report EXCEPT ![v] = <<processed[v]>>]
    /\ UNCHANGED <<dir, mainI, ev, processed, rejectionMode, exited>>
    /\ UNCHANGED vaultVars

NextConvert == MainStartVault \/ Data \/ CopyResolve \/ CopyReject \/ End

SpecConvert == InitConvert /\ [][NextConvert]_vars

----------------------------------------------------------------------------
(* Vocabulary of the properties of the path mapping *)

\* the identifier of the i-th node path: its leaf name under the vault
\* directory, without the three characters of the extension
Identifier(i) ==
  LET leaf == SubSeq(nodePath[i], Len(vault.dendronVault) + 2, Len(nodePath[i]))
  IN SubSeq(leaf, 1, Len(leaf) - 3)

Configured == vault.dendronJournalHierarchy.type = "string"

JournalRoot == vault.dendronJournalHierarchy.value

\* id consists of the journal root, then a dot, then anything
IsMember(id) ==
  /\ Configured
  /\ Len(id) > Len(JournalRoot)
  /\ \A k \in 1..Len(JournalRoot) : id[k] = JournalRoot[k]
  /\ id[Len(JournalRoot) + 1] = "."

\* id after the journal root and one dot
Suffix(id) == SubSeq(id, Len(JournalRoot) + 2, Len(id))

HasDot(s) == \E k \in 1..Len(s) : s[k] = "."

FirstDot(s) == CHOOSE k \in 1..Len(s) : s[k] = "." /\ \A j \in 1..(k - 1) : s[j] # "."

\* the dot-delimited segments of s
RECURSIVE Segments(_)
Segments(s) ==
  IF ~HasDot(s) THEN <<s>>
  ELSE <<SubSeq(s, 1, FirstDot(s) - 1)>> \o Segments(SubSeq(s, FirstDot(s) + 1, Len(s)))

\* the segments joined by a delimiter
RECURSIVE Render(_, _)
Render(segs, delim) ==
  IF Len(segs) = 1 THEN segs[1] ELSE segs[1] \o delim \o Render(Tail(segs), delim)

Underscore == <<"_">>
TripleUnderscore == <<"_", "_", "_">>

ExpectedJournal(id) ==
  vault.logseqGraph \o <<"/","j","o","u","r","n","a","l","s","/">>
    \o Render(Segments(Suffix(id)), Underscore) \o <<".","m","d">>

ExpectedPage(id) ==
  vault.logseqGraph \o <<"/","p","a","g","e","s","/">>
    \o Render(Segments(id), TripleUnderscore) \o <<".","m","d">>

CountDots(s) == Cardinality({k \in 1..Len(s) : s[k] = "."})

\* occurrences of pat in s, counted left to right without overlap
RECURSIVE CountOccurrences(_, _)
CountOccurrences(s, pat) ==
  IF Len(s) < Len(pat) THEN 0
  ELSE IF SubSeq(s, 1, Len(pat)) = pat
       THEN 1 + CountOccurrences(SubSeq(s, Len(pat) + 1, Len(s)), pat)
       ELSE CountOccurrences(Tail(s), pat)

\* s with every occurrence of pat (left to right, without overlap) replaced by r
RECURSIVE Unflatten(_, _, _)
Unflatten(s, pat, r) ==
  IF Len(s) < Len(pat) THEN s
  ELSE IF SubSeq(s, 1, Len(pat)) = pat
       THEN r \o Unflatten(SubSeq(s, Len(pat) + 1, Len(s)), pat, r)
       ELSE <<Head(s)>> \o Unflatten(Tail(s), pat, r)

NoTripleUnderscore(id) == CountOccurrences(id, TripleUnderscore) = 0

NoUnderscoreBesideDot(id) ==
  \A k \in 1..(Len(id) - 1) :
    ~(id[k] = "_" /\ id[k + 1] = ".") /\ ~(id[k] = "." /\ id[k + 1] = "_")

NoUnderscore(s) == \A k \in 1..Len(s) : s[k] # "_"

\* every segment is non-empty and made of letters only
Alphanumeric(id) ==
  \A k \in 1..Len(Segments(id)) :
    /\ Segments(id)[k] # <<>>
    /\ \A j \in 1..Len(Segments(id)[k]) : Segments(id)[k][j] = "d"

\* the file name of a returned path under <graph>/<sub>/, without .md
NameUnder(p, sub) ==
  SubSeq(p, Len(vault.logseqGraph) + Len(sub) + 3, Len(p) - 3)

JournalsName(p) == NameUnder(p, <<"j","o","u","r","n","a","l","s">>)
PagesName(p) == NameUnder(p, <<"p","a","g","e","s">>)

----------------------------------------------------------------------------
(* Properties of the path mapping, stated for Spec *)

\* C1: logseqDestPath returns exactly one path: for a journal member
\* <graph>/journals/<suffix after the root and one dot, '.' rendered as '_'>.md,
\* otherwise <graph>/pages/<identifier, '.' rendered as '___'>.md.
C1_DestPathShape ==
  pc \in {"mapped", "paged"} =>
    \A i \in TwoPaths :
      destPath[i] = Returned(IF IsMember(Identifier(i))
                             THEN ExpectedJournal(Identifier(i))
                             ELSE ExpectedPage(Identifier(i)))

\* one journal member with a dotted suffix and one dotted page have been mapped
C1_Witness ==
  /\ pc = "mapped"
  /\ IsMember(Identifier(1)) /\ HasDot(Suffix(Identifier(1)))
  /\ ~IsMember(Identifier(2)) /\ HasDot(Identifier(2))
  /\ ~destPath[1].threw /\ ~destPath[2].threw

\* C2 as stated: isDendronJournalNode returns false when no journal root is
\* configured and otherwise true iff the identifier starts with root + '.';
\* an identifier equal to the root is mapped to <graph>/pages/<root>.md.
C2_AsStated ==
  /\ pc # "new" =>
       \A i \in TwoPaths :
         isJournal[i] = (IF IsMember(Identifier(i)) THEN "true" ELSE "false")
  /\ pc \in {"mapped", "paged"} =>
       \A i \in TwoPaths :
         (Configured /\ Identifier(i) = JournalRoot) =>
           destPath[i] = Returned(vault.logseqGraph \o <<"/","p","a","g","e","s","/">>
                                    \o JournalRoot \o <<".","m","d">>)

\* C2 amended: without a journal root isDendronJournalNode returns undefined (a
\* falsy value, not false) and does not throw; with one it returns true iff the
\* identifier starts with root + '.'; an identifier equal to the root is not a
\* member and is mapped to <graph>/pages/<root with '.' rendered as '___'>.md.
C2_Classifier ==
  /\ pc # "new" =>
       \A i \in TwoPaths :
         /\ ~Configured => isJournal[i] = "undefined" /\ ~Truthy(isJournal[i])
         /\ Configured =>
              isJournal[i] = (IF IsMember(Identifier(i)) THEN "true" ELSE "false")
         /\ (Configured /\ Identifier(i) = JournalRoot) => isJournal[i] = "false"
  /\ pc \in {"mapped", "paged"} =>
       \A i \in TwoPaths :
         (Configured /\ Identifier(i) = JournalRoot) =>
           destPath[i] = Returned(vault.logseqGraph \o <<"/","p","a","g","e","s","/">>
                                    \o Render(Segments(JournalRoot), TripleUnderscore)
                                    \o <<".","m","d">>)

\* the root itself (a dotted root) and one of its members have been classified
\* and mapped
C2_Witness ==
  /\ pc = "mapped"
  /\ Configured /\ HasDot(JournalRoot)
  /\ Identifier(1) = JournalRoot /\ isJournal[1] = "false"
  /\ IsMember(Identifier(2)) /\ isJournal[2] = "true"

\* C3: logseqDestPath never throws the configuration error of
\* logseqJournalPath, with or without a journal root.
C3_NeverThrows ==
  pc \in {"mapped", "paged"} => \A i \in TwoPaths : ~destPath[i].threw

\* without a journal root, an identifier shaped like a journal entry was mapped
C3_Witness ==
  /\ pc = "mapped"
  /\ ~Configured
  /\ StartsWith(Identifier(1), <<"d", ".">>)
  /\ isJournal[1] = "undefined"
  /\ ~destPath[1].threw

\* C4 as stated: any two distinct identifiers of one binding are mapped to two
\* distinct destination paths.
C4_AsStated ==
  (pc \in {"mapped", "paged"} /\ Identifier(1) # Identifier(2)) =>
    destPath[1] # destPath[2]

\* an identifier whose flattening cannot be confused with a literal underscore:
\* a journal member with no underscore after the root, or a page with no run of
\* three underscores and no underscore next to a dot
Unambiguous(id) ==
  IF IsMember(id) THEN NoUnderscore(Suffix(id))
  ELSE NoTripleUnderscore(id) /\ NoUnderscoreBesideDot(id)

\* C4 amended: two distinct identifiers of one binding are mapped to distinct
\* destination paths provided each is unambiguous: a journal member has no
\* underscore after the root, a page has no run of three underscores and no
\* underscore next to a dot.
C4_CollisionFree ==
  (/\ pc \in {"mapped", "paged"}
   /\ Identifier(1) # Identifier(2)
   /\ Unambiguous(Identifier(1)) /\ Unambiguous(Identifier(2))) =>
    destPath[1] # destPath[2]

\* two distinct unambiguous pages, one with a literal underscore, both mapped
C4_Witness ==
  /\ pc = "mapped"
  /\ Identifier(1) # Identifier(2)
  /\ ~IsMember(Identifier(1)) /\ ~IsMember(Identifier(2))
  /\ Unambiguous(Identifier(1)) /\ Unambiguous(Identifier(2))
  /\ HasDot(Identifier(1)) /\ ~NoUnderscore(Identifier(2))
  /\ destPath[1] # destPath[2]

\* C5 as stated: page flattening is injective over identifiers that contain no
\* run of three underscores.
C5_AsStated ==
  (/\ pc = "paged"
   /\ Identifier(1) # Identifier(2)
   /\ NoTripleUnderscore(Identifier(1)) /\ NoTripleUnderscore(Identifier(2))) =>
    pagePath[1] # pagePath[2]

\* C5 amended: page flattening is injective over identifiers that contain no
\* run of three underscores and no underscore next to a dot.
C5_PageInjective ==
  (/\ pc = "paged"
   /\ Identifier(1) # Identifier(2)
   /\ NoTripleUnderscore(Identifier(1)) /\ NoTripleUnderscore(Identifier(2))
   /\ NoUnderscoreBesideDot(Identifier(1)) /\ NoUnderscoreBesideDot(Identifier(2))) =>
    pagePath[1] # pagePath[2]

\* two distinct identifiers of the amended domain, with dots and with literal
\* underscores, have been flattened
C5_Witness ==
  /\ pc = "paged"
  /\ Identifier(1) # Identifier(2)
  /\ NoTripleUnderscore(Identifier(1)) /\ NoTripleUnderscore(Identifier(2))
  /\ NoUnderscoreBesideDot(Identifier(1)) /\ NoUnderscoreBesideDot(Identifier(2))
  /\ HasDot(Identifier(1)) /\ ~NoUnderscore(Identifier(1))
  /\ ~NoUnderscore(Identifier(2))
  /\ pagePath[1] # pagePath[2]

\* C6 as stated: for every identifier with n dots the page name holds exactly n
\* occurrences of '___' and no '.', and equals the identifier when n = 0.
C6_AsStated ==
  pc = "paged" =>
    \A i \in TwoPaths :
      LET name == PagesName(pagePath[i].value)
      IN /\ CountOccurrences(name, TripleUnderscore) = CountDots(Identifier(i))
         /\ CountDots(name) = 0
         /\ CountDots(Identifier(i)) = 0 => name = Identifier(i)

\* C6 amended: the page name holds no '.', equals the identifier when the
\* identifier has no dot, and holds exactly n occurrences of '___' when the
\* identifier has n dots, no run of three underscores and no underscore next to
\* a dot.
C6_PageName ==
  pc = "paged" =>
    \A i \in TwoPaths :
      LET name == PagesName(pagePath[i].value)
      IN /\ (NoTripleUnderscore(Identifier(i)) /\ NoUnderscoreBesideDot(Identifier(i)))
              => CountOccurrences(name, TripleUnderscore) = CountDots(Identifier(i))
         /\ CountDots(name) = 0
         /\ CountDots(Identifier(i)) = 0 => name = Identifier(i)

\* an identifier with two dots and a literal underscore, and one with no dot,
\* have been flattened
C6_Witness ==
  /\ pc = "paged"
  /\ CountDots(Identifier(1)) = 2 /\ ~NoUnderscore(Identifier(1))
  /\ NoTripleUnderscore(Identifier(1)) /\ NoUnderscoreBesideDot(Identifier(1))
  /\ CountOccurrences(PagesName(pagePath[1].value), TripleUnderscore) = 2
  /\ CountDots(Identifier(2)) = 0
  /\ PagesName(pagePath[2].value) = Identifier(2)

\* C7: for an identifier whose segments are non-empty and alphanumeric, undoing
\* the substitution on the mapped file name gives the identifier back: '___' to
\* '.' for a page, '_' to '.' behind root + '.' for a journal entry.
C7_RoundTrip ==
  pc \in {"mapped", "paged"} =>
    \A i \in TwoPaths :
      Alphanumeric(Identifier(i)) =>
        IF Truthy(isJournal[i])
        THEN JournalRoot \o <<".">>
               \o Unflatten(JournalsName(destPath[i].value), Underscore, <<".">>)
             = Identifier(i)
        ELSE Unflatten(PagesName(destPath[i].value), TripleUnderscore, <<".">>)
             = Identifier(i)

\* an alphanumeric journal entry and an alphanumeric dotted page have been mapped
C7_Witness ==
  /\ pc = "mapped"
  /\ Alphanumeric(Identifier(1)) /\ Alphanumeric(Identifier(2))
  /\ isJournal[1] = "true" /\ HasDot(Suffix(Identifier(1)))
  /\ isJournal[2] # "true" /\ HasDot(Identifier(2))

----------------------------------------------------------------------------
(* Properties of the convert pipeline, stated for SpecConvert *)

EventsOf(v, leaf, op) == {k \in 1..Len(ev[v][leaf]) : ev[v][leaf][k].op = op}

Finished(v, leaf) ==
  EventsOf(v, leaf, "copied") # {} \/ EventsOf(v, leaf, "rejected") # {}

\* C8: for every emitted path the destination is computed exactly once, before
\* the copy of that path is started, and the copy is given that destination,
\* which is the vault's mapping of the path alone; whatever other paths are
\* emitted or in flight.
C8_MapOnceBeforeCopy ==
  \A v \in VaultIds : \A leaf \in dir[v] :
    /\ Emitted(v, leaf) => Cardinality(EventsOf(v, leaf, "logseqDestPath")) = 1
    /\ Cardinality(EventsOf(v, leaf, "copyFile")) <= 1
    /\ \A k \in EventsOf(v, leaf, "copyFile") :
         \E j \in EventsOf(v, leaf, "logseqDestPath") :
           /\ j < k
           /\ ev[v][leaf][j].arg = ev[v][leaf][k].arg
           /\ Returned(ev[v][leaf][k].arg)
                = logseqDestPath(ConvertVaults[v],
                                 GlobPath(ConvertVaults[v].dendronVault, leaf))

\* copies of the same leaf name are in flight in both vaults at once, with
\* different destinations, while another copy has already completed
C8_Witness ==
  \E leaf \in dir[1] \cap dir[2] :
    /\ Pending(1, leaf) /\ Pending(2, leaf)
    /\ ev[1][leaf][2].arg # ev[2][leaf][2].arg
    /\ \E other \in dir[1] : EventsOf(1, other, "copied") # {}

\* C9 as stated: a failed copy does not abort the run: the process never ends
\* on it before every vault is reported and every other path is mapped and its
\* copy finished.
C9_AsStated ==
  exited =>
    /\ \A v \in VaultIds : report[v] # <<>>
    /\ \A v \in VaultIds : \A leaf \in dir[v] : Finished(v, leaf)

\* C10 as stated: the N of "processed N files" is the number of paths the
\* stream emitted for that vault.
C10_AsStated ==
  \A v \in VaultIds :
    report[v] # <<>> => report[v][1] = Cardinality(dir[v])

====
